---- MODULE Spec2Model ----
(***************************************************************************)
(* A model of qtoolkit's SLURM adapter (qtoolkit/io/slurm.py) and of the   *)
(* data objects it builds (qtoolkit/core/data_objects.py).                 *)
(*                                                                         *)
(* Python strings are TLA+ strings, read character by character with       *)
(* SubSeq.  An optional value (None or a value) is a sequence of length 0  *)
(* or 1.  A call's outcome is a record [raised, value]: raised names the   *)
(* exception class that left the call, or is "" when the call returned.    *)
(***************************************************************************)
EXTENDS Integers, Sequences, FiniteSets, TLC

VARIABLES
    self,      \* the SlurmIO instance's attribute dictionary
    op,        \* the method whose call is outstanding, or "idle"
    args,      \* the arguments of that call
    result,    \* the outcome of that call
    caller_job_ids  \* the caller's list object passed as job_ids, if any

vars == <<self, op, args, result, caller_job_ids>>

-----------------------------------------------------------------------------
(* Python values *)

None == <<>>
Some(v) == <<v>>

Returned(v) == [raised |-> "", value |-> v]
Raised(e) == [raised |-> e, value |-> None]

-----------------------------------------------------------------------------
(* Python str primitives *)

Char(s, i) == SubSeq(s, i, i)

Whitespace == {" ", "\n", "\t"}
Digits == {"0", "1", "2", "3", "4", "5", "6", "7", "8", "9"}

\* `x in s` for strings: s has x as a substring
Contains(s, x) ==
    \E i \in 1..(Len(s) - Len(x) + 1) : SubSeq(s, i, i + Len(x) - 1) = x

StartsWithAt(s, i, x) ==
    /\ i + Len(x) - 1 <= Len(s)
    /\ SubSeq(s, i, i + Len(x) - 1) = x

\* the least and the greatest element of a set of integers
SetMin(S) == CHOOSE m \in S : \A n \in S : m <= n
SetMax(S) == CHOOSE m \in S : \A n \in S : n <= m

\* the elements of a set of integers in increasing order
Ascending(S) ==
    [k \in 1..Cardinality(S) |->
        CHOOSE x \in S : Cardinality({y \in S : y < x}) = k - 1]

Range(f) == {f[i] : i \in DOMAIN f}

AllIn(s, a, b, set) == \A q \in a..b : Char(s, q) \in set

\* the first index >= i of s whose character is not in set (Len(s) + 1 if none)
SkipWhile(s, i, set) ==
    SetMin({j \in i..Len(s) : Char(s, j) \notin set} \cup {Len(s) + 1})

\* the last index <= i of s whose character is not in set (0 if none)
SkipBack(s, i, set) ==
    SetMax({j \in 1..i : Char(s, j) \notin set} \cup {0})

\* str.strip()
strip(s) ==
    LET a == SkipWhile(s, 1, Whitespace)
        b == SkipBack(s, Len(s), Whitespace)
    IN  IF a > b THEN "" ELSE SubSeq(s, a, b)

\* str.splitlines(), the line break being "\n": a line starts the text and
\* follows each break, and the break that ends the text starts none
splitlines(s) ==
    LET breaks == {i \in 1..Len(s) : Char(s, i) = "\n"}
        starts == Ascending({b + 1 : b \in {0} \cup breaks} \cap (1..Len(s)))
    IN  [k \in DOMAIN starts |->
            SubSeq(s, starts[k],
                   SetMin({i \in breaks : i >= starts[k]} \cup {Len(s) + 1}) - 1)]

UpperCase == "ABCDEFGHIJKLMNOPQRSTUVWXYZ"
LowerCase == "abcdefghijklmnopqrstuvwxyz"

\* str.lower()
RECURSIVE lower(_)
lower(s) ==
    IF s = "" THEN ""
    ELSE LET c == Char(s, 1)
             u == {i \in 1..Len(UpperCase) : Char(UpperCase, i) = c}
         IN  (IF u = {} THEN c ELSE Char(LowerCase, CHOOSE i \in u : TRUE))
             \o lower(SubSeq(s, 2, Len(s)))

\* the index where the first occurrence of sep in s starts, 0 if there is none
Find(s, sep) ==
    LET at == {i \in 1..(Len(s) - Len(sep) + 1) : StartsWithAt(s, i, sep)}
    IN  IF at = {} THEN 0 ELSE SetMin(at)

\* str.split(sep): the occurrences of sep are taken from the left
RECURSIVE split(_, _)
split(s, sep) ==
    LET i == Find(s, sep)
    IN  IF i = 0 THEN <<s>>
        ELSE <<SubSeq(s, 1, i - 1)>> \o split(SubSeq(s, i + Len(sep), Len(s)), sep)

\* str.split(sep, maxsplit=1)
split1(s, sep) ==
    LET i == Find(s, sep)
    IN  IF i = 0 THEN <<s>>
        ELSE <<SubSeq(s, 1, i - 1), SubSeq(s, i + Len(sep), Len(s))>>

\* str.split(): the runs of characters between whitespace
split_whitespace(s) ==
    LET starts == Ascending({i \in 1..Len(s) :
                                /\ Char(s, i) \notin Whitespace
                                /\ i = 1 \/ Char(s, i - 1) \in Whitespace})
    IN  [k \in DOMAIN starts |->
            SubSeq(s, starts[k], SkipWhile(s, starts[k],
                                           {Char(s, i) : i \in 1..Len(s)}
                                               \ Whitespace) - 1)]

\* sep.join(parts)
RECURSIVE join(_, _)
join(sep, parts) ==
    IF parts = <<>> THEN ""
    ELSE IF Len(parts) = 1 THEN parts[1]
    ELSE parts[1] \o sep \o join(sep, Tail(parts))

DigitValue(c) == CHOOSE d \in 0..9 : Char("0123456789", d + 1) = c

RECURSIVE DecimalValue(_)
DecimalValue(s) ==
    IF s = "" THEN 0
    ELSE LET c == Char(s, Len(s))
             rest == DecimalValue(SubSeq(s, 1, Len(s) - 1))
         IN  IF c = "_" THEN rest ELSE 10 * rest + DigitValue(c)

\* the value of an optionally signed literal, or a ValueError: the digits
\* may be separated by single underscores
IntOfLiteral(negative, body) ==
    IF /\ body # ""
       /\ AllIn(body, 1, Len(body), Digits \cup {"_"})
       /\ Char(body, 1) # "_"
       /\ Char(body, Len(body)) # "_"
       /\ ~Contains(body, "__")
    THEN Returned((IF negative THEN 0 - 1 ELSE 1) * DecimalValue(body))
    ELSE Raised("ValueError")

IntOfStripped(t) ==
    IF t # "" /\ Char(t, 1) \in {"+", "-"}
    THEN IntOfLiteral(Char(t, 1) = "-", SubSeq(t, 2, Len(t)))
    ELSE IntOfLiteral(FALSE, t)

\* int(s): surrounding whitespace is dropped
int(s) == IntOfStripped(strip(s))

RECURSIVE Power(_, _)
Power(b, e) == IF e = 0 THEN 1 ELSE b * Power(b, e - 1)

-----------------------------------------------------------------------------
(* re.match of the acknowledgement patterns: an optional group "any     *)
(* characters but newline, a colon, any whitespace", one of the phrases,  *)
(* at least one whitespace character, and the group jobid of at least one *)
(* digit.                                                                  *)

\* phrase, whitespace, digits matched at index i: the jobid group, or None
MatchAck(s, i, phrases) ==
    LET here == {p \in phrases : StartsWithAt(s, i, p)}
    IN  IF here = {} THEN None
        ELSE LET p == CHOOSE q \in here : TRUE
                 j == i + Len(p)
                 k == SkipWhile(s, j, Whitespace)
                 m == SkipWhile(s, k, Digits)
             IN  IF k > j /\ m > k THEN Some(SubSeq(s, k, m - 1)) ELSE None

\* re.search in the place of re.match: the phrase may start anywhere
ReSearchJobId(s, phrases) ==
    LET found == {i \in 1..Len(s) : MatchAck(s, i, phrases) # None}
    IN  IF found = {} THEN None
        ELSE MatchAck(s, CHOOSE i \in found : \A j \in found : i <= j, phrases)

\* re.match: anchored at the start.  The optional group is tried first and
\* its "any characters" is greedy, so the match with the last usable ':' of
\* the first line wins; without one the phrase must start the string.
ReMatchJobId(s, phrases) ==
    LET after(p) == SkipWhile(s, p + 1, Whitespace)
        colons == {p \in 1..Len(s) :
                      /\ Char(s, p) = ":"
                      /\ \A q \in 1..(p - 1) : Char(s, q) # "\n"
                      /\ MatchAck(s, after(p), phrases) # None}
    IN  IF colons # {} THEN MatchAck(s, after(SetMax(colons)), phrases)
        ELSE MatchAck(s, 1, phrases)

_SLURM_SUBMITTED_REGEXP ==
    {"Granted job allocation", "granted job allocation",
     "Submitted batch job", "submitted batch job"}

_SLURM_CANCELLED_REGEXP == {"Terminating job"}

-----------------------------------------------------------------------------
(* SlurmIO.parse_submit_output, SlurmIO.parse_cancel_output *)

SubmissionResult(job_id, exit_code, stdout, stderr, status) ==
    [job_id |-> job_id, step_id |-> None, exit_code |-> exit_code,
     stdout |-> stdout, stderr |-> stderr, status |-> status]

CancelResult(job_id, exit_code, stdout, stderr, status) ==
    [job_id |-> job_id, step_id |-> None, exit_code |-> exit_code,
     stdout |-> stdout, stderr |-> stderr, status |-> status]

parse_submit_output(exit_code, stdout, stderr) ==
    IF exit_code # 0
    THEN Returned(SubmissionResult(None, exit_code, stdout, stderr, "FAILED"))
    ELSE LET job_id == ReMatchJobId(strip(stdout), _SLURM_SUBMITTED_REGEXP)
             status == IF job_id # None /\ job_id[1] # ""
                       THEN "SUCCESSFUL" ELSE "JOB_ID_UNKNOWN"
         IN  Returned(SubmissionResult(job_id, exit_code, stdout, stderr, status))

\* parse_cancel_output reading the acknowledgement from the wrong stream
parse_cancel_output_stdout(exit_code, stdout, stderr) ==
    IF exit_code # 0
    THEN Returned(CancelResult(None, exit_code, stdout, stderr, "FAILED"))
    ELSE LET job_id == ReMatchJobId(strip(stdout), _SLURM_CANCELLED_REGEXP)
             status == IF job_id # None /\ job_id[1] # ""
                       THEN "SUCCESSFUL" ELSE "JOB_ID_UNKNOWN"
         IN  Returned(CancelResult(job_id, exit_code, stdout, stderr, status))

parse_cancel_output(exit_code, stdout, stderr) ==
    IF exit_code # 0
    THEN Returned(CancelResult(None, exit_code, stdout, stderr, "FAILED"))
    ELSE LET job_id == ReMatchJobId(strip(stderr), _SLURM_CANCELLED_REGEXP)
             status == IF job_id # None /\ job_id[1] # ""
                       THEN "SUCCESSFUL" ELSE "JOB_ID_UNKNOWN"
         IN  Returned(CancelResult(job_id, exit_code, stdout, stderr, status))

-----------------------------------------------------------------------------
(* SlurmState (a QSubState), QState and SlurmIO._STATUS_MAPPING *)

QState ==
    {"UNDETERMINED", "QUEUED", "QUEUED_HELD", "RUNNING", "SUSPENDED",
     "REQUEUED", "REQUEUED_HELD", "DONE", "FAILED"}

\* the members of SlurmState in declaration order, each with its values
SlurmStateMembers ==
    << <<"CANCELLED", "CA">>, <<"COMPLETING", "CG">>, <<"COMPLETED", "CD">>,
       <<"CONFIGURING", "CF">>, <<"DEADLINE", "DL">>, <<"FAILED", "F">>,
       <<"NODE_FAIL", "NF">>, <<"OUT_OF_MEMORY", "OOM">>, <<"PENDING", "PD">>,
       <<"RUNNING", "R">>, <<"SUSPENDED", "S">>, <<"TIMEOUT", "TO">> >>

\* QSubState.__new__ and the enum machinery: the member's name is its first
\* value, and every value of a member is entered in _value2member_map_, a
\* later entry replacing an earlier one
_value2member_map_ ==
    LET Holders(v) == {n \in DOMAIN SlurmStateMembers :
                          v \in Range(SlurmStateMembers[n])}
    IN  [v \in UNION {Range(SlurmStateMembers[n]) :
                         n \in DOMAIN SlurmStateMembers} |->
            SlurmStateMembers[SetMax(Holders(v))][1]]

\* SlurmState(value): the lookup by value
SlurmState(value) ==
    IF value \in DOMAIN _value2member_map_
    THEN Returned(_value2member_map_[value])
    ELSE Raised("ValueError")

\* QSubState.qstate: abstract, and SlurmState does not override it
qstate(member) == Raised("NotImplementedError")

_STATUS_MAPPING ==
    [CANCELLED |-> "SUSPENDED", COMPLETING |-> "RUNNING", COMPLETED |-> "DONE",
     CONFIGURING |-> "QUEUED", DEADLINE |-> "FAILED", FAILED |-> "FAILED",
     NODE_FAIL |-> "FAILED", OUT_OF_MEMORY |-> "FAILED", PENDING |-> "QUEUED",
     RUNNING |-> "RUNNING", SUSPENDED |-> "SUSPENDED", TIMEOUT |-> "FAILED"]

\* self._STATUS_MAPPING[slurm_state]
StatusOf(slurm_state) ==
    IF slurm_state \in DOMAIN _STATUS_MAPPING
    THEN Returned(_STATUS_MAPPING[slurm_state])
    ELSE Raised("KeyError")

-----------------------------------------------------------------------------
(* SlurmIO._convert_time_str, SlurmIO._convert_memory_str *)

\* the outcomes of steps taken in order: the first that raised, or all the
\* values
InOrder(steps) ==
    IF \E n \in DOMAIN steps : steps[n].raised # ""
    THEN steps[SetMin({n \in DOMAIN steps : steps[n].raised # ""})]
    ELSE Returned([n \in DOMAIN steps |-> steps[n].value])

\* int(v) for each v of parts, in order: the values, or the first ValueError
ints(parts) == InOrder([n \in DOMAIN parts |-> int(parts[n])])

\* days = int(split_day[0]); time_split = [split_day[0]] + time_split[1:]
TimeSplitOfDays(days, split_day, time_split) ==
    IF days.raised # "" THEN days
    ELSE Returned([days |-> days.value,
                   time_split |-> <<split_day[1]>> \o Tail(time_split)])

TimeSplitWithDay(split_day, time_split) ==
    TimeSplitOfDays(int(split_day[1]), split_day, time_split)

\* the first statement of the try block: [days, time_split], or a ValueError
TimeSplitDays(time_split) ==
    IF Contains(time_split[1], "-")
    THEN TimeSplitWithDay(split(time_split[1], "-"), time_split)
    ELSE Returned([days |-> 0, time_split |-> time_split])

\* hours, minutes and seconds of one, two or three numbers, in seconds
ClockSeconds(v) ==
    IF Len(v) = 3 THEN v[1] * 3600 + v[2] * 60 + v[3]
    ELSE IF Len(v) = 2 THEN v[1] * 60 + v[2]
    ELSE v[1] * 60

TimeOfNumbers(days, v) ==
    IF v.raised # "" THEN Raised("OutputParsingError")
    ELSE Returned(Some(days * 86400 + ClockSeconds(v.value)))

\* the rest of the try block and the return: a ValueError, and a time_split
\* of more than three parts, leave as OutputParsingError
TimeOfSplit(d) ==
    IF d.raised # "" THEN Raised("OutputParsingError")
    ELSE IF Len(d.value.time_split) \notin {1, 2, 3}
    THEN Raised("OutputParsingError")
    ELSE TimeOfNumbers(d.value.days, ints(d.value.time_split))

_convert_time_str(time_str) ==
    IF time_str = "" THEN Returned(None)
    ELSE IF time_str \in {"UNLIMITED", "NOT_SET"} THEN Returned(None)
    ELSE TimeOfSplit(TimeSplitDays(split(time_str, ":")))

power_labels == [K |-> 0, M |-> 1, G |-> 2, T |-> 3]

\* v = int(memory), then v * 1024 ** power_labels[units]
MemoryOf(v, units) ==
    IF v.raised # "" THEN Raised("OutputParsingError")
    ELSE IF units \notin DOMAIN power_labels THEN Raised("KeyError")
    ELSE Returned(v.value * Power(1024, power_labels[units]))

_convert_memory_str(memory) ==
    IF \A u \in {"K", "M", "G", "T"} : Contains(memory, u)
    THEN MemoryOf(int(memory), "M")
    ELSE IF memory = "" THEN Raised("IndexError")
    ELSE MemoryOf(int(SubSeq(memory, 1, Len(memory) - 1)),
                  Char(memory, Len(memory)))

-----------------------------------------------------------------------------
(* The data objects QJobInfo and QJob *)

\* obj.name = v
SetAttr(obj, name, v) ==
    [a \in DOMAIN obj \cup {name} |-> IF a = name THEN v ELSE obj[a]]

\* the fields of the dataclass QJobInfo
QJobInfoFields ==
    {"memory", "memory_per_cpu", "nodes", "cpus", "threads_per_process",
     "time_limit"}

\* QJobInfo(**kw): the generated __init__ takes the declared fields only
QJobInfo(kw) ==
    IF DOMAIN kw \subseteq QJobInfoFields
    THEN Returned([f \in QJobInfoFields |->
                      IF f \in DOMAIN kw THEN kw[f] ELSE None])
    ELSE Raised("TypeError")

\* the fields of the dataclass QJob
QJobFields ==
    {"name", "job_id", "exit_status", "state", "sub_state", "info", "account",
     "runtime", "queue_name"}

\* QJob(**kw)
QJob(kw) ==
    IF DOMAIN kw \subseteq QJobFields
    THEN Returned([f \in QJobFields |-> IF f \in DOMAIN kw THEN kw[f] ELSE None])
    ELSE Raised("TypeError")

-----------------------------------------------------------------------------
(* SlurmIO.parse_job_output *)

\* d[key]
Lookup(d, key) ==
    IF key \in DOMAIN d THEN Returned(d[key]) ELSE Raised("KeyError")

\* try: v = o  except exc: v = None
Except(o, exc) ==
    IF o.raised = exc THEN Returned(None)
    ELSE IF o.raised = "" THEN Returned(Some(o.value))
    ELSE o

\* the dict of the tokens split at "=": a token without "=" has no element
\* [1], and the last token of a key gives the key's value
DictOfData(data) ==
    IF \E n \in DOMAIN data : Len(data[n]) < 2 THEN Raised("IndexError")
    ELSE Returned([key \in {data[n][1] : n \in DOMAIN data} |->
                      data[SetMax({n \in DOMAIN data : data[n][1] = key})][2]])

DataOfTokens(tokens) == [n \in DOMAIN tokens |-> split1(tokens[n], "=")]

_parse_scontrol_cmd_output(stdout) ==
    DictOfData(DataOfTokens(split_whitespace(stdout)))

\* job_state = self._STATUS_MAPPING[slurm_state]
WithJobState(slurm_state, job_state) ==
    IF job_state.raised # "" THEN job_state
    ELSE Returned([sub_state |-> slurm_state, state |-> job_state.value])

\* slurm_state = SlurmState(parsed_output["JobState"]), and its job_state
StatesOfSlurmState(slurm_state) ==
    IF slurm_state.raised # "" THEN slurm_state
    ELSE WithJobState(slurm_state.value, StatusOf(slurm_state.value))

StatesOfJobState(JobState) ==
    IF JobState.raised # "" THEN JobState
    ELSE StatesOfSlurmState(SlurmState(JobState.value))

\* try: memory_per_cpu = self._convert_memory_str(parsed_output[...])
MemoryPerCpu(MinMemoryCPU) ==
    IF MinMemoryCPU.raised # "" THEN MinMemoryCPU
    ELSE Except(_convert_memory_str(MinMemoryCPU.value), "OutputParsingError")

\* try: n = int(parsed_output[...])  except ValueError: n = None
IntOrNone(v) ==
    IF v.raised # "" THEN v ELSE Except(int(v.value), "ValueError")

\* try: t = self._convert_time_str(...)  except OutputParsingError: t = None
TimeOrNone(t) ==
    IF t.raised = "OutputParsingError" THEN Returned(None) ELSE t

TimeLimitOf(TimeLimit) ==
    IF TimeLimit.raised # "" THEN TimeLimit
    ELSE TimeOrNone(_convert_time_str(TimeLimit.value))

\* return QJob(...), the arguments being read off parsed_output in order
QJobOfNames(states, info, names) ==
    IF names.raised # "" THEN names
    ELSE QJob([name |-> Some(names.value[1]),
               job_id |-> Some(names.value[2]),
               state |-> Some(states.state),
               sub_state |-> Some(states.sub_state),
               info |-> Some(info),
               account |-> Some(names.value[3]),
               queue_name |-> Some(names.value[4])])

QJobOfInfo(parsed_output, states, info) ==
    IF info.raised # "" THEN info
    ELSE QJobOfNames(states, info.value,
                     InOrder(<<Lookup(parsed_output, "JobName"),
                               Lookup(parsed_output, "JobId"),
                               Lookup(parsed_output, "UserId"),
                               Lookup(parsed_output, "Partition")>>))

\* info = QJobInfo(memory=..., ..., priority=priority, qos=...)
QJobOfFields(parsed_output, fields) ==
    IF fields.raised # "" THEN fields
    ELSE QJobOfInfo(parsed_output, fields.value[1],
                    QJobInfo([memory |-> fields.value[2],
                              nodes |-> fields.value[3],
                              cpus |-> fields.value[4],
                              threads_per_process |-> fields.value[5],
                              time_limit |-> fields.value[7],
                              priority |-> fields.value[6],
                              qos |-> Some(fields.value[8])]))

\* parse_job_output from the state lookup on: the statements up to QJobInfo
\* in order, then the two constructors
QJobOfScontrol(parsed_output) ==
    QJobOfFields(parsed_output,
        InOrder(<<StatesOfJobState(Lookup(parsed_output, "JobState")),
                  MemoryPerCpu(Lookup(parsed_output, "MinMemoryCPU")),
                  IntOrNone(Lookup(parsed_output, "NumNodes")),
                  IntOrNone(Lookup(parsed_output, "NumCPUs")),
                  IntOrNone(Lookup(parsed_output, "CPUs/Task")),
                  IntOrNone(Lookup(parsed_output, "Priority")),
                  TimeLimitOf(Lookup(parsed_output, "TimeLimit")),
                  Lookup(parsed_output, "QOS")>>))

QJobOfParsed(parsed_output) ==
    IF parsed_output.raised # "" THEN parsed_output
    ELSE QJobOfScontrol(parsed_output.value)

\* reading self.get_job_executable for the message of CommandFailedError
CommandFailed(slf) ==
    IF "get_job_executable" \notin DOMAIN slf THEN Raised("AttributeError")
    ELSE Raised("CommandFailedError")

\* parse_job_output without its first statement, the test of the exit code
parse_job_output_any_exit(slf, exit_code, stdout, stderr) ==
    IF "get_job_executable" \notin DOMAIN slf THEN Raised("AttributeError")
    ELSE IF slf.get_job_executable = "sacct" THEN Raised("NotImplementedError")
    ELSE IF slf.get_job_executable # "scontrol" THEN Raised("RuntimeError")
    ELSE QJobOfParsed(_parse_scontrol_cmd_output(stdout))

parse_job_output(slf, exit_code, stdout, stderr) ==
    IF exit_code # 0 THEN CommandFailed(slf)
    ELSE IF "get_job_executable" \notin DOMAIN slf THEN Raised("AttributeError")
    ELSE IF slf.get_job_executable = "sacct" THEN Raised("NotImplementedError")
    ELSE IF slf.get_job_executable # "scontrol" THEN Raised("RuntimeError")
    ELSE QJobOfParsed(_parse_scontrol_cmd_output(stdout))

-----------------------------------------------------------------------------
(* SlurmIO._get_job_cmd *)

_get_job_cmd(slf, job_id) ==
    IF "get_job_executable" \notin DOMAIN slf THEN Raised("AttributeError")
    ELSE IF slf.get_job_executable = "scontrol"
    THEN Returned("SLURM_TIME_FORMAT='standard' scontrol show job -o " \o job_id)
    ELSE IF slf.get_job_executable = "sacct" THEN Raised("NotImplementedError")
    ELSE Raised("RuntimeError")

-----------------------------------------------------------------------------
(* SlurmIO.squeue_fields, _get_jobs_list_cmd, parse_jobs_list_output *)

squeue_fields ==
    << <<"%i", "job_id">>, <<"%t", "state_raw">>, <<"%r", "annotation">>,
       <<"%j", "job_name">>, <<"%u", "username">>, <<"%P", "partition">>,
       <<"%l", "time_limit">>, <<"%D", "number_nodes">>,
       <<"%C", "number_cpus">>, <<"%M", "time_used">>, <<"%m", "min_memory">> >>

\* the truth value of an optional str or list argument
Truthy(x) == x # None /\ Len(x[1]) > 0

\* the list of job ids, were a single id not appended once more
job_ids_as_given(slf, job_ids, user) == job_ids

\* the caller's list object when _get_jobs_list_cmd is done with it:
\* "job_ids += [job_ids[0]]" extends the list that was passed in
job_ids_after(slf, job_ids, user) ==
    IF /\ ~(Truthy(user) /\ Truthy(job_ids))
       /\ "split_separator" \in DOMAIN slf
       /\ Truthy(job_ids)
       /\ Len(job_ids[1]) = 1
    THEN Some(job_ids[1] \o <<job_ids[1][1]>>)
    ELSE job_ids

\* " ".join(command)
CommandOf(fields, by_user, by_jobs) ==
    join(" ", <<"SLURM_TIME_FORMAT='standard'", "squeue", "--noheader",
                "-o '" \o fields \o "'">> \o by_user \o by_jobs)

_get_jobs_list_cmd(slf, job_ids, user) ==
    IF Truthy(user) /\ Truthy(job_ids) THEN Raised("ValueError")
    ELSE IF "split_separator" \notin DOMAIN slf THEN Raised("AttributeError")
    ELSE Returned(CommandOf(
             join(slf.split_separator \o " ",
                  [n \in DOMAIN squeue_fields |-> squeue_fields[n][1]]),
             IF Truthy(user) THEN <<"-u " \o user[1]>> ELSE <<>>,
             IF Truthy(job_ids)
             THEN <<"--jobs=" \o join(",", job_ids_after(slf, job_ids, user)[1])>>
             ELSE <<>>))

\* thisjob_dict: the stripped fields of a line under their names
thisjob_dict(data) ==
    [k \in {squeue_fields[n][2] : n \in DOMAIN squeue_fields} |->
        strip(data[CHOOSE n \in DOMAIN squeue_fields : squeue_fields[n][2] = k])]

\* try: slurm_job_state = SlurmState(job_state_string)
\* except ValueError: raise OutputParsingError
StatesOfSqueue(slurm_job_state) ==
    IF slurm_job_state.raised = "ValueError" THEN Raised("OutputParsingError")
    ELSE StatesOfSlurmState(slurm_job_state)

\* the QJob and its QJobInfo, attribute by attribute
QJobOfSqueueFields(dict, fields) ==
    IF fields.raised # "" THEN fields
    ELSE Returned(
           SetAttr(
             [QJob(<<>>).value EXCEPT
                 !.job_id = Some(dict["job_id"]),
                 !.sub_state = Some(fields.value[1].sub_state),
                 !.state = Some(fields.value[1].state),
                 !.runtime = fields.value[6],
                 !.name = Some(dict["job_name"]),
                 !.info = Some(SetAttr(
                              [QJobInfo(<<>>).value EXCEPT
                                  !.nodes = fields.value[2],
                                  !.cpus = fields.value[3],
                                  !.memory_per_cpu = fields.value[4],
                                  !.time_limit = fields.value[5]],
                              "partition", Some(dict["partition"])))],
             "username", Some(dict["username"])))

\* the statements of the loop body that can raise, in order
QJobOfDict(dict) ==
    QJobOfSqueueFields(dict,
        InOrder(<<StatesOfSqueue(SlurmState(dict["state_raw"])),
                  Except(int(dict["number_nodes"]), "ValueError"),
                  Except(int(dict["number_cpus"]), "ValueError"),
                  Except(_convert_memory_str(dict["min_memory"]),
                         "OutputParsingError"),
                  _convert_time_str(dict["time_limit"]),
                  TimeOrNone(_convert_time_str(dict["time_used"]))>>))

\* the body of the loop over jobdata_raw: the QJob of one split line
QJobOfSqueue(data) ==
    IF Len(data) # Len(squeue_fields) THEN Raised("OutputParsingError")
    ELSE QJobOfDict(thisjob_dict(data))

\* the loop over jobdata_raw, were it to continue past a line that raises
job_list_partial(jobdata_raw) ==
    LET Parses(data) == QJobOfSqueue(data).raised = ""
        parsed == SelectSeq(jobdata_raw, Parses)
    IN  Returned([n \in DOMAIN parsed |-> QJobOfSqueue(parsed[n]).value])

\* the loop over jobdata_raw: the first line that raises ends the call
job_list(jobdata_raw) ==
    InOrder([n \in DOMAIN jobdata_raw |-> QJobOfSqueue(jobdata_raw[n])])

\* the lines that hold the separator
WithSeparator(lines, split_separator) ==
    LET HasSeparator(chunk) == Contains(chunk, split_separator)
    IN  SelectSeq(lines, HasSeparator)

\* jobdata_raw: the lines of stdout that hold the separator, each split on it
jobdata_raw_of(lines, split_separator) ==
    [n \in DOMAIN lines |-> split(lines[n], split_separator)]

JobListOfLines(slf, lines) ==
    IF lines = <<>> THEN Returned(<<>>)
    ELSE IF "split_separator" \notin DOMAIN slf THEN Raised("AttributeError")
    ELSE job_list(jobdata_raw_of(WithSeparator(lines, slf.split_separator),
                                 slf.split_separator))

parse_jobs_list_output(slf, exit_code, stdout, stderr) ==
    IF exit_code # 0 THEN CommandFailed(slf)
    ELSE JobListOfLines(slf, splitlines(stdout))

-----------------------------------------------------------------------------
(* QResources, SlurmIO._qresources_mapping, _convert_qresources *)

\* the fields of the dataclass QResources, with their defaults
QResourcesDefaults ==
    [queue_name |-> None, job_name |-> None, memory_per_thread |-> Some(1024),
     nodes |-> Some(1), processes |-> Some(1), processes_per_node |-> None,
     threads_per_process |-> None, time_limit |-> None, account |-> None,
     qos |-> None, priority |-> None, output_filepath |-> None,
     error_filepath |-> None]

\* QResources(**kw)
QResources(kw) ==
    IF DOMAIN kw \subseteq DOMAIN QResourcesDefaults
    THEN Returned([f \in DOMAIN QResourcesDefaults |->
                      IF f \in DOMAIN kw THEN kw[f] ELSE QResourcesDefaults[f]])
    ELSE Raised("TypeError")

\* the names that header_template substitutes
header_template ==
    {"queue_name", "job_name", "number_of_nodes", "number_of_tasks",
     "ntasks_per_node", "cpus_per_task", "mem", "mem_per_cpu", "hint", "time",
     "exclude_nodes", "account", "mail_user", "mail_type", "constraint",
     "gres", "requeue", "nodelist", "propagate", "licenses", "_qout_path",
     "_qerr_path", "qos", "qverbatim"}

\* the items of the dict, in insertion order
_qresources_mapping ==
    << <<"queue_name", "partition">>, <<"memory_per_thread", "mem-per-cpu">>,
       <<"nodes", "nodes">>, <<"processes", "ntasks">>,
       <<"processes_per_node", "ntasks-per-node">>,
       <<"threads_per_process", "cpus-per-task">>, <<"time_limit", "time">>,
       <<"hold", "hold">>, <<"account", "account">>, <<"qos", "qos">>,
       <<"priority", "priority">> >>

\* getattr(obj, name)
getattr(obj, name) ==
    IF name \in DOMAIN obj THEN Returned(obj[name])
    ELSE Raised("AttributeError")

\* header_dict[slurm_field] = val, for the values that are not None
HeaderDictOf(vals) ==
    IF vals.raised # "" THEN vals
    ELSE Returned(
           [slurm_field \in {_qresources_mapping[n][2] :
                               n \in {m \in DOMAIN _qresources_mapping :
                                         vals.value[m] # None}} |->
               vals.value[CHOOSE n \in DOMAIN _qresources_mapping :
                             _qresources_mapping[n][2] = slurm_field][1]])

\* the loop over the items of _qresources_mapping: the first getattr that
\* raises ends the call
_convert_qresources(resources) ==
    HeaderDictOf(InOrder([n \in DOMAIN _qresources_mapping |->
                             getattr(resources, _qresources_mapping[n][1])]))

\* list(self._qresources_mapping.keys())
supported_qresources_keys ==
    [n \in DOMAIN _qresources_mapping |-> _qresources_mapping[n][1]]

-----------------------------------------------------------------------------
(* Inputs *)

\* how many fragments a captured stream is made of
MaxFrags == 2

ExitCodes == {0, 1}

AckFragments ==
    {"Submitted batch job 12", "SUBMITTED BATCH JOB 12",
     "granted job allocation 7", "Terminating job 80",
     "sbatch: ", "\n", "x\n", "3"}

RECURSIVE Texts(_)
Texts(n) ==
    IF n = 0 THEN {""}
    ELSE LET shorter == Texts(n - 1)
         IN  shorter \cup {t \o f : t \in shorter, f \in AckFragments}

\* the two captured streams of a submit or cancel command
AckStreams ==
    LET T == Texts(MaxFrags)
    IN  {<<t, "">> : t \in T} \cup {<<"", t>> : t \in T}

\* how many ":"-separated parts a time literal has
MaxTimeParts == 3

TimeParts == {"02", "03", "04", "x"}
DayParts == {"1", "3", "x", ""}

RECURSIVE Clock(_)
Clock(n) ==
    IF n = 1 THEN TimeParts
    ELSE LET shorter == Clock(n - 1)
         IN  shorter \cup {c \o ":" \o p : c \in shorter, p \in TimeParts}

TimeStrings ==
    LET C == Clock(MaxTimeParts)
    IN  C \cup {d \o "-" \o c : d \in DayParts, c \in C}
          \cup {"", "UNLIMITED", "NOT_SET", "abc", "05:06", "7", "05:-6",
                "1-2-3:04", "1:02:03:04", "INVALID"}

\* memory literals; the numbers are kept small enough for value * 1024^3
MemoryStrings ==
    {n \o u : n \in {"1", "", "abc", "-1"},
              u \in {"K", "M", "G", "T", "", "B", "KMGT", "k"}}
      \cup {"4096M", "4096K", "4096", "2G", "0", "M", "12KMGT", "1_0M"}

StateLiterals ==
    UNION {Range(SlurmStateMembers[n]) : n \in DOMAIN SlurmStateMembers}
      \cup {"BOGUS", "cd", "", "PREEMPTED"}

\* the output of "scontrol show job -o": one line of KEY=VALUE tokens
ScontrolLines ==
    {join(" ", <<"JobId=80", "JobName=relax", "UserId=alice(1000)",
                 "Priority=" \o priority, qos, "JobState=" \o state,
                 "TimeLimit=" \o time, "Partition=debug",
                 "NumNodes=" \o nodes, "NumCPUs=" \o cpus,
                 "CPUs/Task=" \o task, "MinMemoryCPU=" \o memory>>) \o tail :
        priority \in {"4294", "x"},
        qos \in {"QOS=normal", "Reason=None"},
        state \in {"RUNNING", "COMPLETED", "BOGUS"},
        time \in {"1-02:03:04", "UNLIMITED", "abc"},
        nodes \in {"2", "x"},
        cpus \in {"8"},
        task \in {"N/A"},
        memory \in {"4096M", "4096", "abc", ""},
        tail \in {"\n", " (null)\n"}}

\* how many lines the output of squeue has
MaxLines == 2

SqueueRow80 ==
    <<"80", "R", "None", "relax", "alice", "debug", "1-02:03:04", "1", "8",
      "0:10", "4096M">>

\* lines of squeue output: as the format prints them, and damaged ones
SqueueLines ==
    LET row(fields) == join("<><> ", fields)
    IN  {row(SqueueRow80),
         row([SqueueRow80 EXCEPT ![1] = "82", ![2] = "XX"]),
         row([SqueueRow80 EXCEPT ![1] = "84", ![11] = "4096"]),
         row(SubSeq(SqueueRow80, 1, 10)),
         row(SqueueRow80 \o <<"extra">>),
         "garbage",
         join("| ", <<"81", "PD", "Priority", "relax", "alice", "debug",
                      "UNLIMITED", "x", "1", "", "abc">>)}

RECURSIVE SqueueOutputs(_)
SqueueOutputs(n) ==
    IF n = 0 THEN {""}
    ELSE LET shorter == SqueueOutputs(n - 1)
         IN  shorter \cup {t \o l \o "\n" : t \in shorter, l \in SqueueLines}

\* how many job ids a list query names
MaxJobIds == 1

JobIds == {"80"}

RECURSIVE JobIdLists(_)
JobIdLists(n) ==
    IF n = 0 THEN {<<>>}
    ELSE LET shorter == JobIdLists(n - 1)
         IN  shorter \cup {l \o <<j>> : l \in shorter, j \in JobIds}

Users == {None, Some(""), Some("alice")}

\* how many fields of a QResources differ from the instance it starts as
MaxChanged == 1

\* a value for each field of QResources
QResourcesSamples ==
    [queue_name |-> "debug", job_name |-> "relax", memory_per_thread |-> 2048,
     nodes |-> 2, processes |-> 4, processes_per_node |-> 2,
     threads_per_process |-> 8, time_limit |-> 3600, account |-> "alice",
     qos |-> "normal", priority |-> 10, output_filepath |-> "q.out",
     error_filepath |-> "q.err"]

\* QResources(): the defaults, and the instance with every field None
QResourcesStarts ==
    {QResourcesDefaults, [f \in DOMAIN QResourcesDefaults |-> None]}

\* a field of a QResources changed: set when it was None, None when set
ChangedIn(resources, changed) ==
    [f \in DOMAIN resources |->
        IF f \notin changed THEN resources[f]
        ELSE IF resources[f] = None THEN Some(QResourcesSamples[f])
        ELSE None]

ResourceRequests ==
    {ChangedIn(start, changed) :
        start \in QResourcesStarts,
        changed \in {c \in SUBSET DOMAIN QResourcesDefaults :
                        Cardinality(c) <= MaxChanged}}

-----------------------------------------------------------------------------
(* The adapter and its calls *)

\* the arguments of __int__: the defaults, and each argument changed alone
Configurations ==
    {<<"scontrol", "<><>">>, <<"sacct", "<><>">>, <<"qstat", "<><>">>,
     <<"scontrol", "|">>}

NoAttributes == [a \in {} |-> ""]

Init ==
    /\ self = NoAttributes
    /\ op = "idle"
    /\ args = None
    /\ result = None
    /\ caller_job_ids = None

\* SlurmIO.__int__: the only code that assigns the two attributes
__int__ ==
    /\ op = "idle"
    /\ \E configuration \in Configurations :
          self' = [get_job_executable |-> configuration[1],
                   split_separator |-> configuration[2]]
    /\ UNCHANGED <<op, args, result, caller_job_ids>>

ParseSubmitOutput ==
    /\ op = "idle"
    /\ \E exit_code \in ExitCodes, streams \in AckStreams :
          /\ args' = [exit_code |-> exit_code, stdout |-> streams[1],
                      stderr |-> streams[2]]
          /\ result' = parse_submit_output(exit_code, streams[1], streams[2])
    /\ op' = "parse_submit_output"
    /\ UNCHANGED <<self, caller_job_ids>>

ParseCancelOutput ==
    /\ op = "idle"
    /\ \E exit_code \in ExitCodes, streams \in AckStreams :
          /\ args' = [exit_code |-> exit_code, stdout |-> streams[1],
                      stderr |-> streams[2]]
          /\ result' = parse_cancel_output(exit_code, streams[1], streams[2])
    /\ op' = "parse_cancel_output"
    /\ UNCHANGED <<self, caller_job_ids>>

ParseJobOutput ==
    /\ op = "idle"
    /\ \E exit_code \in ExitCodes, stdout \in ScontrolLines :
          /\ args' = [exit_code |-> exit_code, stdout |-> stdout,
                      stderr |-> IF exit_code = 0 THEN "" ELSE "error\n"]
          /\ result' = parse_job_output(self, exit_code, stdout, args'.stderr)
    /\ op' = "parse_job_output"
    /\ UNCHANGED <<self, caller_job_ids>>

GetJobsListCmd ==
    /\ op = "idle"
    /\ \E ids \in {None} \cup {Some(l) : l \in JobIdLists(MaxJobIds)},
          user \in Users :
          /\ args' = [job_ids |-> ids, user |-> user]
          /\ result' = _get_jobs_list_cmd(self, ids, user)
          /\ caller_job_ids' = job_ids_after(self, ids, user)
    /\ op' = "_get_jobs_list_cmd"
    /\ UNCHANGED self

\* parse_jobs_list_output on captured output: of any command, or of the
\* list command that was just built
ParseJobsListOutput ==
    /\ \/ op = "idle"
       \/ op = "_get_jobs_list_cmd" /\ result.raised = ""
    /\ \E exit_code \in ExitCodes, stdout \in SqueueOutputs(MaxLines) :
          /\ args' = [exit_code |-> exit_code, stdout |-> stdout,
                      stderr |-> IF exit_code = 0 THEN "" ELSE "error\n",
                      command |-> IF op = "idle" THEN None
                                  ELSE Some(result.value)]
          /\ result' = parse_jobs_list_output(self, exit_code, stdout,
                                               args'.stderr)
    /\ op' = "parse_jobs_list_output"
    /\ UNCHANGED <<self, caller_job_ids>>

ConvertTimeStr ==
    /\ op = "idle"
    /\ \E time_str \in TimeStrings :
          /\ args' = [time_str |-> time_str]
          /\ result' = _convert_time_str(time_str)
    /\ op' = "_convert_time_str"
    /\ UNCHANGED <<self, caller_job_ids>>

ConvertMemoryStr ==
    /\ op = "idle"
    /\ \E memory \in MemoryStrings :
          /\ args' = [memory |-> memory]
          /\ result' = _convert_memory_str(memory)
    /\ op' = "_convert_memory_str"
    /\ UNCHANGED <<self, caller_job_ids>>

\* SlurmState(value)
LookUpSlurmState ==
    /\ op = "idle"
    /\ \E value \in StateLiterals :
          /\ args' = [value |-> value]
          /\ result' = SlurmState(value)
    /\ op' = "SlurmState"
    /\ UNCHANGED <<self, caller_job_ids>>

\* a member's qstate, read off a member that a lookup returned
ReadQstate ==
    /\ op = "SlurmState"
    /\ result.raised = ""
    /\ args' = [member |-> result.value]
    /\ result' = qstate(result.value)
    /\ op' = "qstate"
    /\ UNCHANGED <<self, caller_job_ids>>

\* SlurmIO._STATUS_MAPPING[member], for a member that a lookup returned
ReadStatusMapping ==
    /\ op = "SlurmState"
    /\ result.raised = ""
    /\ args' = [member |-> result.value]
    /\ result' = StatusOf(result.value)
    /\ op' = "_STATUS_MAPPING"
    /\ UNCHANGED <<self, caller_job_ids>>

GetJobCmd ==
    /\ op = "idle"
    /\ \E job_id \in JobIds :
          /\ args' = [job_id |-> job_id]
          /\ result' = _get_job_cmd(self, job_id)
    /\ op' = "_get_job_cmd"
    /\ UNCHANGED <<self, caller_job_ids>>

ConvertQresources ==
    /\ op = "idle"
    /\ \E resources \in ResourceRequests :
          /\ args' = [resources |-> resources]
          /\ result' = _convert_qresources(resources)
    /\ op' = "_convert_qresources"
    /\ UNCHANGED <<self, caller_job_ids>>

\* the property supported_qresources_keys
ReadSupportedQresourcesKeys ==
    /\ op = "idle"
    /\ args' = None
    /\ result' = Returned(supported_qresources_keys)
    /\ op' = "supported_qresources_keys"
    /\ UNCHANGED <<self, caller_job_ids>>

\* the caller takes the outcome; nothing of the call stays in the adapter
Return ==
    /\ op # "idle"
    /\ op' = "idle"
    /\ args' = None
    /\ result' = None
    /\ caller_job_ids' = None
    /\ UNCHANGED self

Next ==
    \/ __int__
    \/ ParseSubmitOutput
    \/ ParseCancelOutput
    \/ ParseJobOutput
    \/ GetJobsListCmd
    \/ ParseJobsListOutput
    \/ ConvertTimeStr
    \/ ConvertMemoryStr
    \/ LookUpSlurmState
    \/ ReadQstate
    \/ ReadStatusMapping
    \/ GetJobCmd
    \/ ConvertQresources
    \/ ReadSupportedQresourcesKeys
    \/ Return

Spec == Init /\ [][Next]_vars

-----------------------------------------------------------------------------
(* The acknowledgement grammar, stated by positions rather than by a scan *)

\* i may begin the phrase: the start of the text, or just after "prefix:" and
\* whitespace, the prefix lying on the first line
AfterOptionalPrefix(t, i) ==
    \/ i = 1
    \/ \E c \in 1..(i - 1) :
          /\ Char(t, c) = ":"
          /\ \A q \in 1..(c - 1) : Char(t, q) # "\n"
          /\ AllIn(t, c + 1, i - 1, Whitespace)

\* the <<start, id>> of every reading of t as [prefix:] phrase whitespace id
Acknowledgements(t, phrases) ==
    UNION {
      LET j == i + Len(p)
          ks == {k \in (j + 1)..Len(t) :
                    /\ Char(t, k) \in Digits
                    /\ AllIn(t, j, k - 1, Whitespace)}
      IN  UNION {
            {<<i, SubSeq(t, k, m - 1)>> :
                m \in {n \in (k + 1)..(Len(t) + 1) :
                          /\ n = Len(t) + 1 \/ Char(t, n) \notin Digits
                          /\ AllIn(t, k, n - 1, Digits)}} : k \in ks}
      : <<i, p>> \in {x \in (1..Len(t)) \X phrases :
                        /\ StartsWithAt(t, x[1], x[2])
                        /\ AfterOptionalPrefix(t, x[1])} }

SubmitOrCancel == op \in {"parse_submit_output", "parse_cancel_output"}

\* the stream an acknowledgement is read from, and the other one
AckStream == IF op = "parse_submit_output" THEN args.stdout ELSE args.stderr
OtherStream == IF op = "parse_submit_output" THEN args.stderr ELSE args.stdout
AckPhrases ==
    IF op = "parse_submit_output" THEN _SLURM_SUBMITTED_REGEXP
    ELSE _SLURM_CANCELLED_REGEXP

\* C1: parse_submit_output and parse_cancel_output always return an outcome:
\* FAILED exactly when the exit code is not 0, SUCCESSFUL exactly when the
\* exit code is 0 and an acknowledgement with a numeric id is read from the
\* command's own stream (stdout for submit, stderr for cancel), the job id
\* then being that id, and JOB_ID_UNKNOWN otherwise; only SUCCESSFUL carries
\* a job id, and text on the other stream never makes a call SUCCESSFUL.
C1_OutcomeStatus ==
    SubmitOrCancel =>
        LET r == result.value
            acks == Acknowledgements(strip(AckStream), AckPhrases)
        IN  /\ result.raised = ""
            /\ r.status \in {"FAILED", "SUCCESSFUL", "JOB_ID_UNKNOWN"}
            /\ r.status = "FAILED" <=> args.exit_code # 0
            /\ r.status = "SUCCESSFUL" <=> (args.exit_code = 0 /\ acks # {})
            /\ r.status = "SUCCESSFUL" =>
                  /\ r.job_id # None
                  /\ r.exit_code = 0
                  /\ \E a \in acks : r.job_id = Some(a[2])
            /\ r.status # "SUCCESSFUL" => r.job_id = None
            /\ (AckStream = "" /\ OtherStream # "") => r.status # "SUCCESSFUL"

\* a cancel acknowledged on stderr, with its id
C1_Witness ==
    /\ op = "parse_cancel_output"
    /\ args.exit_code = 0
    /\ args.stderr = "sbatch: Terminating job 80"
    /\ result.value.status = "SUCCESSFUL"
    /\ result.value.job_id = Some("80")

SubmitSucceeded == op = "parse_submit_output" /\ args.exit_code = 0

\* C2, as claimed: with exit code 0, any line of stdout that reads, in any
\* letter case, [prefix:] "granted job allocation" or "submitted batch job"
\* and an integer n makes the outcome SUCCESSFUL with job id n, and only a
\* stdout without such a line gives JOB_ID_UNKNOWN.
C2_AnyLineAnyCase ==
    SubmitSucceeded =>
        LET words == {"granted job allocation", "submitted batch job"}
            ids == UNION {{a[2] : a \in Acknowledgements(lower(l), words)} :
                             l \in Range(splitlines(args.stdout))}
        IN  IF ids = {}
            THEN result.value.status = "JOB_ID_UNKNOWN"
            ELSE /\ result.value.status = "SUCCESSFUL"
                 /\ \E n \in ids : result.value.job_id = Some(n)

\* C2, amended: with exit code 0, stdout is stripped and matched at its
\* start only.  The outcome is SUCCESSFUL with job id n exactly when the
\* stripped stdout begins, after an optional "prefix:" of its first line and
\* whitespace, with "granted job allocation" or "submitted batch job" (only
\* the first letter in either case), whitespace and the integer n, the last
\* such reading giving the id; otherwise it is JOB_ID_UNKNOWN.  An
\* acknowledgement on a later line of a stdout whose first line has no colon
\* gives JOB_ID_UNKNOWN.
C2_MatchAtStart ==
    SubmitSucceeded =>
        LET t == strip(args.stdout)
            acks == Acknowledgements(t, _SLURM_SUBMITTED_REGEXP)
            first == IF t = "" THEN "" ELSE splitlines(t)[1]
        IN  /\ IF acks = {}
               THEN /\ result.value.status = "JOB_ID_UNKNOWN"
                    /\ result.value.job_id = None
               ELSE /\ result.value.status = "SUCCESSFUL"
                    /\ \E a \in acks :
                          /\ \A b \in acks : b[1] <= a[1]
                          /\ result.value.job_id = Some(a[2])
            /\ (/\ ~Contains(first, ":")
                /\ \A p \in _SLURM_SUBMITTED_REGEXP : ~StartsWithAt(t, 1, p))
               => result.value.status = "JOB_ID_UNKNOWN"

\* an acknowledgement that starts the stripped stdout after a prefix
C2_Witness ==
    /\ SubmitSucceeded
    /\ args.stdout = "sbatch: Submitted batch job 12"
    /\ result.value.status = "SUCCESSFUL"
    /\ result.value.job_id = Some("12")

-----------------------------------------------------------------------------
(* The query parsers *)

\* the adapter holds the scontrol query executable
WithScontrol ==
    /\ "get_job_executable" \in DOMAIN self
    /\ self.get_job_executable = "scontrol"

QueryParsed == op \in {"parse_job_output", "parse_jobs_list_output"}

\* C3: on an adapter that holds the scontrol executable, parse_job_output
\* and parse_jobs_list_output called with an exit code other than 0 raise
\* CommandFailedError, and nothing else, and return no record, whatever
\* stdout and stderr hold.
C3_NonZeroExit ==
    (QueryParsed /\ WithScontrol /\ args.exit_code # 0)
        => result = Raised("CommandFailedError")

\* a failed squeue whose stdout nevertheless holds a well-formed row
C3_Witness ==
    /\ op = "parse_jobs_list_output"
    /\ WithScontrol
    /\ args.exit_code = 1
    /\ args.stdout = join("<><> ", SqueueRow80) \o "\n"
    /\ args.stderr = "error\n"
    /\ result.raised = "CommandFailedError"

\* the KEY=VALUE reading of a one-line scontrol output: the tokens between
\* whitespace, each with a "="
KeyValues(t) ==
    LET tokens == split_whitespace(t)
    IN  IF \A n \in DOMAIN tokens : Contains(tokens[n], "=")
        THEN {split1(tokens[n], "=") : n \in DOMAIN tokens}
        ELSE {}

\* the literals of the raw-state table: a member's name and its short code
RawStateOf(literal) ==
    {SlurmStateMembers[n][1] :
        n \in {m \in DOMAIN SlurmStateMembers :
                  literal \in Range(SlurmStateMembers[m])}}

\* the mapping table of the SLURM adapter, as the specification lists it
CanonicalState ==
    [CANCELLED |-> "SUSPENDED", COMPLETING |-> "RUNNING", COMPLETED |-> "DONE",
     CONFIGURING |-> "QUEUED", PENDING |-> "QUEUED", RUNNING |-> "RUNNING",
     SUSPENDED |-> "SUSPENDED", DEADLINE |-> "FAILED", FAILED |-> "FAILED",
     NODE_FAIL |-> "FAILED", OUT_OF_MEMORY |-> "FAILED", TIMEOUT |-> "FAILED"]

ScontrolParsed ==
    op = "parse_job_output" /\ WithScontrol /\ args.exit_code = 0

\* C4: on an adapter that holds the scontrol executable, parse_job_output
\* with exit code 0 and a one-line KEY=VALUE stdout whose JobState is a
\* recognized literal returns a QJob with that raw state and the canonical
\* state the mapping table gives it; a resource field that does not convert
\* is absent in the QJobInfo and does not abort the call, and the QJobInfo
\* carries priority and QoS.
C4_ReturnsRecord ==
    ScontrolParsed =>
        \A kv \in KeyValues(args.stdout) :
            (kv[1] = "JobState" /\ RawStateOf(kv[2]) # {}) =>
                /\ result.raised = ""
                /\ \E raw \in RawStateOf(kv[2]) :
                      /\ result.value.sub_state = Some(raw)
                      /\ result.value.state = Some(CanonicalState[raw])
                /\ result.value.info # None
                /\ {"priority", "qos"} \subseteq DOMAIN result.value.info[1]

\* C5: every fatal grammar failure of the query parsers is an
\* OutputParsingError and nothing else: with exit code 0, parse_job_output
\* raises it when the JobState literal is not a recognized raw state and when
\* a token of stdout holds no "=", and parse_jobs_list_output raises it when
\* the state code of a line is not a recognized raw state.
C5_GrammarFailures ==
    /\ ScontrolParsed =>
          LET tokens == split_whitespace(args.stdout)
          IN  (\/ \E n \in DOMAIN tokens : ~Contains(tokens[n], "=")
               \/ \E kv \in KeyValues(args.stdout) :
                     kv[1] = "JobState" /\ RawStateOf(kv[2]) = {})
                  => result = Raised("OutputParsingError")
    /\ (/\ op = "parse_jobs_list_output"
        /\ args.exit_code = 0
        /\ "split_separator" \in DOMAIN self) =>
          LET lines == splitlines(args.stdout)
          IN  (\E n \in DOMAIN lines :
                  LET data == split(lines[n], self.split_separator)
                  IN  /\ Len(data) = Len(squeue_fields)
                      /\ RawStateOf(strip(data[2])) = {})
                  => result = Raised("OutputParsingError")

-----------------------------------------------------------------------------
(* The list query *)

ListParsed ==
    /\ op = "parse_jobs_list_output"
    /\ args.exit_code = 0
    /\ "split_separator" \in DOMAIN self

\* the lines of the captured stdout, and how many fields each splits into
Lines == splitlines(args.stdout)
FieldCount(n) == Len(split(Lines[n], self.split_separator))

\* the lines that hold the delimiter
Delimited == {n \in DOMAIN Lines : Contains(Lines[n], self.split_separator)}

\* C6, as claimed: with exit code 0, every line of stdout is split on the
\* delimiter into exactly as many fields as squeue_fields has; any line with
\* another count, a line without the delimiter included, makes the call raise
\* OutputParsingError and return no list; a returned list has one record per
\* line of stdout.
C6_AnyLineFatal ==
    ListParsed =>
        /\ (\E n \in DOMAIN Lines : FieldCount(n) # Len(squeue_fields))
              => result = Raised("OutputParsingError")
        /\ result.raised = "" =>
              /\ \A n \in DOMAIN Lines : FieldCount(n) = Len(squeue_fields)
              /\ Len(result.value) = Len(Lines)

\* C6, amended: with exit code 0, only the lines of stdout that hold the
\* delimiter are split; a line without it is passed over and fails nothing.
\* If any line that holds the delimiter splits into a number of fields other
\* than that of squeue_fields, the call raises and returns no list, partial
\* or otherwise; the error is OutputParsingError when that line is the first
\* that holds the delimiter.  A returned list has one record per line that
\* holds the delimiter, each of them of the right count, and is empty when no
\* line holds it.
C6_DelimitedLinesOnly ==
    ListParsed =>
        /\ (\E n \in Delimited : FieldCount(n) # Len(squeue_fields))
              => result.raised # ""
        /\ (/\ Delimited # {}
            /\ FieldCount(SetMin(Delimited)) # Len(squeue_fields))
              => result = Raised("OutputParsingError")
        /\ result.raised = "" =>
              /\ \A n \in Delimited : FieldCount(n) = Len(squeue_fields)
              /\ Len(result.value) = Cardinality(Delimited)
        /\ Delimited = {} => result = Returned(<<>>)

\* a line without the delimiter ahead of a row: the row alone is returned
C6_Witness ==
    /\ ListParsed
    /\ self.split_separator = "<><>"
    /\ args.stdout = "garbage\n" \o join("<><> ", SqueueRow80) \o "\n"
    /\ result.raised = ""
    /\ Len(result.value) = 1
    /\ result.value[1].job_id = Some("80")

\* the command ends with a --jobs filter that names j twice
NamesTwice(command, j) ==
    LET filter == "--jobs=" \o j \o "," \o j
    IN  /\ Len(command) >= Len(filter)
        /\ SubSeq(command, Len(command) - Len(filter) + 1, Len(command)) = filter

\* the rows of the captured stdout for job j, and the returned records for it
RowsFor(j) ==
    {n \in Delimited : strip(split(Lines[n], self.split_separator)[1]) = j}
RecordsFor(j) ==
    {n \in DOMAIN result.value : result.value[n].job_id = Some(j)}

SingleJobQueried ==
    /\ op = "_get_jobs_list_cmd"
    /\ args.job_ids # None
    /\ Len(args.job_ids[1]) = 1
    /\ result.raised = ""

ListOfQueryParsed == ListParsed /\ args.command # None

\* C7, as claimed: the command for exactly one job id j names j twice in its
\* --jobs filter, and parse_jobs_list_output on the output of that query
\* returns exactly one record for j even when the output holds the row for j
\* more than once.
C7_OneRecordPerJob ==
    /\ SingleJobQueried => NamesTwice(result.value, args.job_ids[1][1])
    /\ ListOfQueryParsed =>
          \A j \in JobIds :
              (/\ NamesTwice(args.command[1], j)
               /\ RowsFor(j) # {}
               /\ result.raised = "") => Cardinality(RecordsFor(j)) = 1

\* C7, amended: the command for exactly one job id j names j twice in its
\* --jobs filter; parse_jobs_list_output on the output of that query, when it
\* returns, returns one record for j for every row of the output that is
\* for j: rows of the same job id are not collapsed, and the row repeated
\* gives two records.
C7_OneRecordPerRow ==
    /\ SingleJobQueried => NamesTwice(result.value, args.job_ids[1][1])
    /\ ListOfQueryParsed =>
          \A j \in JobIds :
              (NamesTwice(args.command[1], j) /\ result.raised = "")
                  => Cardinality(RecordsFor(j)) = Cardinality(RowsFor(j))

\* the output of the query for job 80 holds its row twice
C7_Witness ==
    /\ ListOfQueryParsed
    /\ NamesTwice(args.command[1], "80")
    /\ Cardinality(RowsFor("80")) = 2
    /\ result.raised = ""
    /\ Cardinality(RecordsFor("80")) = 2

-----------------------------------------------------------------------------
(* The time and memory literals *)

\* a decimal component: digits and nothing else
Decimal(s) == s # "" /\ AllIn(s, 1, Len(s), Digits)

\* the seconds that the grammar [[DD-]HH:]MM:SS gives a literal: days, hours,
\* minutes and seconds are the literal's own; no value for other strings
GrammarSeconds(t) ==
    LET clock == split(t, ":")
        day == split(clock[1], "-")
        V(x) == DecimalValue(x)
    IN  IF /\ Len(clock) = 3
           /\ Len(day) = 2
           /\ \A x \in {day[1], day[2], clock[2], clock[3]} : Decimal(x)
        THEN {V(day[1]) * 86400 + V(day[2]) * 3600 + V(clock[2]) * 60
                + V(clock[3])}
        ELSE IF \E n \in DOMAIN clock : ~Decimal(clock[n]) THEN {}
        ELSE IF Len(clock) = 3
        THEN {V(clock[1]) * 3600 + V(clock[2]) * 60 + V(clock[3])}
        ELSE IF Len(clock) = 2 THEN {V(clock[1]) * 60 + V(clock[2])}
        ELSE IF Len(clock) = 1 THEN {V(clock[1]) * 60}
        ELSE {}

\* C8: _convert_time_str follows the grammar [[DD-]HH:]MM:SS: a literal
\* DD-HH:MM:SS, HH:MM:SS, MM:SS or MM of decimal components gives
\* days*86400 + hours*3600 + minutes*60 + seconds of its own components
\* ("1-02:03:04" gives 93784, "05:06" gives 306), "UNLIMITED" and "NOT_SET"
\* give None, and every other string raises OutputParsingError.
C8_TimeGrammar ==
    op = "_convert_time_str" =>
        IF args.time_str \in {"UNLIMITED", "NOT_SET"}
        THEN result = Returned(None)
        ELSE IF GrammarSeconds(args.time_str) # {}
        THEN \E v \in GrammarSeconds(args.time_str) : result = Returned(Some(v))
        ELSE result = Raised("OutputParsingError")

\* the power of 1024 that each unit letter stands for
UnitPower == [K |-> 0, M |-> 1, G |-> 2, T |-> 3]

\* C9: _convert_memory_str returns value * 1024^power or raises
\* OutputParsingError, and nothing else: an integer followed by one unit
\* letter K, M, G or T has power 0, 1, 2 or 3, a literal of digits only is
\* read with the unit M, and a prefix that is no integer raises
\* OutputParsingError; so a memory field that does not convert is absent in
\* the record of a list line and never aborts the parse.
C9_MemoryGrammar ==
    /\ op = "_convert_memory_str" =>
          LET m == args.memory
              prefix == SubSeq(m, 1, Len(m) - 1)
              unit == Char(m, Len(m))
          IN  /\ result.raised \in {"", "OutputParsingError"}
              /\ (m # "" /\ unit \in DOMAIN UnitPower /\ Decimal(prefix)) =>
                    result = Returned(DecimalValue(prefix)
                                        * Power(1024, UnitPower[unit]))
              /\ Decimal(m) => result = Returned(DecimalValue(m) * 1024)
              /\ (/\ m # ""
                  /\ unit \in DOMAIN UnitPower
                  /\ int(prefix).raised # "")
                    => result = Raised("OutputParsingError")
    /\ ListParsed => result.raised \in {"", "OutputParsingError"}

-----------------------------------------------------------------------------
(* The raw-state table *)

\* C10: the raw-state table is total and single-valued: each of the 12
\* members resolves from its name and from its short code to the same
\* member, _STATUS_MAPPING gives every member the one canonical state that
\* the specification lists for it, and a member's own qstate returns that
\* same canonical state.
C10_StateTable ==
    /\ Len(SlurmStateMembers) = 12
    /\ \A n \in DOMAIN SlurmStateMembers :
          /\ SlurmState(SlurmStateMembers[n][1]) =
                Returned(SlurmStateMembers[n][1])
          /\ SlurmState(SlurmStateMembers[n][2]) =
                Returned(SlurmStateMembers[n][1])
          /\ SlurmStateMembers[n][1] \in DOMAIN CanonicalState
    /\ (op = "SlurmState" /\ RawStateOf(args.value) # {}) =>
          \E raw \in RawStateOf(args.value) : result = Returned(raw)
    /\ op = "_STATUS_MAPPING" => result = Returned(CanonicalState[args.member])
    /\ op = "qstate" => result = Returned(CanonicalState[args.member])

-----------------------------------------------------------------------------
(* The resource request *)

\* C11: for every QResources, _convert_qresources succeeds and emits a
\* directive for a supported field exactly when the field holds a value:
\* every name of supported_qresources_keys is a field of QResources, a field
\* that is None gives no directive, and each directive is keyed by a name
\* that header_template substitutes.
C11_DirectivePerPresentField ==
    /\ op = "supported_qresources_keys" =>
          /\ result.raised = ""
          /\ Range(result.value) \subseteq DOMAIN QResourcesDefaults
    /\ op = "_convert_qresources" =>
          /\ result.raised = ""
          /\ \A n \in DOMAIN _qresources_mapping :
                LET qr_field == _qresources_mapping[n][1]
                    slurm_field == _qresources_mapping[n][2]
                IN  slurm_field \in DOMAIN result.value
                       <=> (/\ qr_field \in DOMAIN args.resources
                            /\ args.resources[qr_field] # None)
          /\ DOMAIN result.value \subseteq header_template

-----------------------------------------------------------------------------
(* The command builders and the adapter's configuration *)

\* C12: _get_jobs_list_cmd is a pure builder of a command string: it raises
\* the invalid-argument error ValueError, and returns no command, exactly
\* when both a non-empty list of job ids and a user are given, and every
\* call, a call with a single job id included, leaves the caller's list of
\* job ids with the elements it had before the call.
C12_PureBuilder ==
    op = "_get_jobs_list_cmd" =>
        /\ result.raised = "ValueError"
              <=> (Truthy(args.job_ids) /\ Truthy(args.user))
        /\ caller_job_ids = args.job_ids

\* C13: constructing a SlurmIO sets get_job_executable and split_separator,
\* so that both are defined in every state after construction, and no call
\* of a command builder or of a parser changes them.
C13_ConfigurationSet ==
    /\ {"get_job_executable", "split_separator"} \subseteq DOMAIN self
    /\ op = "_get_job_cmd" => result.raised # "AttributeError"
    /\ op \in {"_get_jobs_list_cmd", "parse_job_output",
               "parse_jobs_list_output"} => result.raised # "AttributeError"

====
